---- MODULE Spec2Model ----
(***************************************************************************)
(* A model of atgen's generator (lib/generator.go): version planning       *)
(* (filterTestFuncs), the Generate run over the output files, the tree     *)
(* work of generateTestFuncs (imports, declaration assembly) and the       *)
(* register interpolation (replaceRegister).                               *)
(*                                                                         *)
(* Go strings are sequences of one-character strings.  A Go slice is a     *)
(* record [isNil, elems]: a nil slice and an empty non-nil slice are       *)
(* different values with the same (zero) length.                           *)
(***************************************************************************)
EXTENDS Integers, Sequences, FiniteSets, TLC

VARIABLES
    \* ---- planning (filterTestFuncs)
    testFuncs,   \* the input TestFuncs of filterTestFuncs
    tfuncs,      \* the map version -> TestFuncs it returns
    planPc,      \* "start" | "planned"
    \* ---- a run of Generate
    genPlan,     \* the map version -> router kinds of the version's test functions
    tmpl,        \* what the template file and the environment are like
    visited,     \* versions the range loop has started on
    cur,         \* the version of the current iteration
    tmp,         \* per version: the state of its temporary file
    out,         \* per version: the state of the file at its output path
    pc,          \* position of Generate
    \* ---- the tree work of generateTestFuncs
    asmTemplate, \* the parsed template: its declarations and imports, as given
    asmFuncs,    \* the version's planned test functions
    imports,     \* the import list of the file f
    decls,       \* f.Decls
    tfnodes,     \* the generated function nodes
    asmIdx,      \* index of the next test function
    asmPc,       \* "funcs" | "assemble" | "done"
    \* ---- register interpolation
    regPath,     \* the register path, as its segments
    literal,     \* the value of the string literal node
    regPc        \* "start" | "done"

planVars == <<testFuncs, tfuncs, planPc>>
genVars == <<genPlan, tmpl, visited, cur, tmp, out, pc>>
asmVars == <<asmTemplate, asmFuncs, imports, decls, tfnodes, asmIdx, asmPc>>
regVars == <<regPath, literal, regPc>>
vars == <<testFuncs, tfuncs, planPc, genPlan, tmpl, visited, cur, tmp, out, pc,
          asmTemplate, asmFuncs, imports, decls, tfnodes, asmIdx, asmPc,
          regPath, literal, regPc>>

----------------------------------------------------------------------------
(* Bounds *)

MaxFnVersions == 2      \* length of a TestFunc's APIVersions
MaxTestVersions == 1    \* length of a Test's or Subtest's APIVersions
MaxItems == 2           \* length of a TestFunc's Tests
MaxFuncs == 2           \* length of the TestFuncs given to filterTestFuncs

----------------------------------------------------------------------------
(* Go values *)

NilSlice == [isNil |-> TRUE, elems |-> <<>>]

Slice(s) == [isNil |-> FALSE, elems |-> s]

SeqsUpTo(S, n) == UNION {[1..k -> S] : k \in 0..n}

V1 == <<"v", "1">>

V2 == <<"v", "2">>

Versions == {V1, V2}

\* the token filterTest replaces
Placeholder == <<"{", "a", "p", "i", "V", "e", "r", "s", "i", "o", "n", "}">>

PathSet ==
    { <<"/", "x">>,
      <<"/">> \o Placeholder,
      <<"/">> \o Placeholder \o <<"/">> \o Placeholder }

SlicesUpTo(n) == {NilSlice} \cup {Slice(s) : s \in SeqsUpTo(Versions, n)}

TestSet ==
    [kind : {"Test"}, APIVersions : SlicesUpTo(MaxTestVersions), Path : PathSet]

\* Tests of a Subtest: at most one, with the single-placeholder path
SubtestTestSet == {t \in TestSet : t.Path = <<"/">> \o Placeholder}

SubtestSet ==
    [Name : {"s"}, APIVersions : SlicesUpTo(MaxTestVersions),
     Tests : SeqsUpTo(SubtestTestSet, 1)]

SubtestsSet == [kind : {"Subtests"}, subs : {<<s>> : s \in SubtestSet}]

ItemSet == TestSet \cup SubtestsSet

FuncNames == <<"TestA", "TestB", "TestC">>

\* test functions with at most n items
TestFuncSet(n) ==
    [Name : {FuncNames[1]}, APIVersions : SlicesUpTo(MaxFnVersions),
     Tests : SeqsUpTo(ItemSet, n)]

\* k test functions of at most n items each, named by their place
RECURSIVE TestFuncSeqs(_, _)
TestFuncSeqs(k, n) ==
    IF k = 0 THEN {<<>>}
    ELSE {Append(fs, [f EXCEPT !.Name = FuncNames[k]]) :
             fs \in TestFuncSeqs(k - 1, n), f \in TestFuncSet(n)}

----------------------------------------------------------------------------
(* strings *)

\* s[i..] starts with p
HasPrefixAt(s, p, i) ==
    /\ i + Len(p) - 1 <= Len(s)
    /\ \A k \in 1..Len(p) : s[i + k - 1] = p[k]

\* positions where old occurs in s
Occurrences(s, old) == {i \in 1..Len(s) : HasPrefixAt(s, old, i)}

Min(S) == CHOOSE x \in S : \A y \in S : x <= y

Max(S) == CHOOSE x \in S : \A y \in S : x >= y

\* strings.Replace(s, old, new, 1): the first occurrence only
ReplaceFirst(s, old, new) ==
    IF Occurrences(s, old) = {} THEN s
    ELSE LET i == Min(Occurrences(s, old))
         IN  SubSeq(s, 1, i - 1) \o new \o SubSeq(s, i + Len(old), Len(s))

\* strings.Replace(s, old, new, -1): every non-overlapping occurrence, left to right
RECURSIVE ReplaceEvery(_, _, _)
ReplaceEvery(s, old, new) ==
    IF Occurrences(s, old) = {} THEN s
    ELSE LET i == Min(Occurrences(s, old))
         IN  SubSeq(s, 1, i - 1) \o new
               \o ReplaceEvery(SubSeq(s, i + Len(old), Len(s)), old, new)

----------------------------------------------------------------------------
(* planning: filterTestFuncs, filterTests, filterTest, getVersions *)

contains(s, e) == \E i \in 1..Len(s.elems) : s.elems[i] = e

\* the Test filterTest returns a pointer to; its Path is rewritten before the tests
FilteredTest(test, version) ==
    [test EXCEPT !.Path = ReplaceFirst(test.Path, Placeholder, version)]

\* filterTest returns non-nil
filterTestKeeps(test, versions, version) ==
    \/ contains(test.APIVersions, version)
    \/ (test.APIVersions.isNil /\ contains(versions, version))

\* the Tests filterTest keeps of a sequence, in order
RECURSIVE FilterTestSeq(_, _, _)
FilterTestSeq(tests, versions, version) ==
    IF tests = <<>> THEN <<>>
    ELSE (IF filterTestKeeps(Head(tests), versions, version)
          THEN <<FilteredTest(Head(tests), version)>> ELSE <<>>)
         \o FilterTestSeq(Tail(tests), versions, version)

\* the `continue` conditions of the Subtests loop do not hold
SubtestKept(s, versions, version) ==
    /\ ~(~s.APIVersions.isNil /\ ~contains(s.APIVersions, version))
    /\ ~(s.APIVersions.isNil /\ ~contains(versions, version))

RECURSIVE FilterSubtests(_, _, _)
FilterSubtests(subs, versions, version) ==
    IF subs = <<>> THEN <<>>
    ELSE (IF SubtestKept(Head(subs), versions, version)
          THEN << [Name |-> Head(subs).Name,
                   Tests |-> FilterTestSeq(Head(subs).Tests, versions, version)] >>
          ELSE <<>>)
         \o FilterSubtests(Tail(subs), versions, version)

RECURSIVE FilterItems(_, _, _)
FilterItems(items, versions, version) ==
    IF items = <<>> THEN <<>>
    ELSE (IF Head(items).kind = "Test"
          THEN FilterTestSeq(<<Head(items)>>, versions, version)
          ELSE << [kind |-> "Subtests",
                   subs |-> FilterSubtests(Head(items).subs, versions, version)] >>)
         \o FilterItems(Tail(items), versions, version)

filterTests(testFunc, version) ==
    [Name |-> testFunc.Name,
     Tests |-> FilterItems(testFunc.Tests, testFunc.APIVersions, version)]

\* the versions of the Tests placed directly in the function, in order
RECURSIVE DirectTestVersions(_)
DirectTestVersions(items) ==
    IF items = <<>> THEN <<>>
    ELSE (IF Head(items).kind = "Test" THEN Head(items).APIVersions.elems ELSE <<>>)
         \o DirectTestVersions(Tail(items))

\* the dedupe loop: first occurrences, in order
RECURSIVE Dedupe(_, _)
Dedupe(s, seen) ==
    IF s = <<>> THEN <<>>
    ELSE IF Head(s) \in seen THEN Dedupe(Tail(s), seen)
         ELSE <<Head(s)>> \o Dedupe(Tail(s), seen \cup {Head(s)})

getVersions(testFunc) ==
    Dedupe(testFunc.APIVersions.elems \o DirectTestVersions(testFunc.Tests), {})

\* tfuncs[version] = append(tfuncs[version], tfunc)
MapAppend(m, k, x) ==
    [v \in DOMAIN m \cup {k} |->
        IF v = k THEN (IF k \in DOMAIN m THEN Append(m[k], x) ELSE <<x>>) ELSE m[v]]

RECURSIVE PlanVersions(_, _, _)
PlanVersions(m, testFunc, versions) ==
    IF versions = <<>> THEN m
    ELSE PlanVersions(MapAppend(m, Head(versions), filterTests(testFunc, Head(versions))),
                      testFunc, Tail(versions))

RECURSIVE filterTestFuncs(_, _)
filterTestFuncs(m, funcs) ==
    IF funcs = <<>> THEN m
    ELSE filterTestFuncs(PlanVersions(m, Head(funcs), getVersions(Head(funcs))), Tail(funcs))

EmptyMap == [v \in {} |-> <<>>]

----------------------------------------------------------------------------
(* idle values of the parts a specification does not run *)

PlanIdle == testFuncs = <<>> /\ tfuncs = EmptyMap /\ planPc = "idle"

GenIdle ==
    /\ genPlan = EmptyMap /\ tmpl = [idle |-> TRUE] /\ visited = {} /\ cur = <<>>
    /\ tmp = EmptyMap /\ out = EmptyMap /\ pc = "idle"

AsmIdle ==
    /\ asmTemplate = [idle |-> TRUE] /\ asmFuncs = <<>> /\ imports = {} /\ decls = <<>> /\ tfnodes = <<>>
    /\ asmIdx = 0 /\ asmPc = "idle"

RegIdle == regPath = <<>> /\ literal = <<>> /\ regPc = "idle"

----------------------------------------------------------------------------
(* SpecPlan: filterTestFuncs applied to the test functions of a YAML file *)

PlanInit ==
    \* one function of at most MaxItems items, or up to MaxFuncs functions of fewer
    /\ \/ \E f \in TestFuncSet(MaxItems) : testFuncs = <<f>>
       \/ \E k \in 2..MaxFuncs : testFuncs \in TestFuncSeqs(k, MaxItems - 1)
    /\ tfuncs = EmptyMap
    /\ planPc = "start"
    /\ GenIdle /\ AsmIdle /\ RegIdle

\* Generate, line 33: tfuncs := filterTestFuncs(g.TestFuncs)
FilterTestFuncs ==
    /\ planPc = "start"
    /\ tfuncs' = filterTestFuncs(EmptyMap, testFuncs)
    /\ planPc' = "planned"
    /\ UNCHANGED <<testFuncs, genVars, asmVars, regVars>>

PlanNext == FilterTestFuncs

SpecPlan == PlanInit /\ [][PlanNext]_vars

(* reading the plan *)

\* the entry of testFuncs[i] in tfuncs[version]: versions of a function are distinct,
\* so it is the entry after those of the earlier functions planned for the version
EntryIndex(i, version) ==
    Cardinality({j \in 1..i : \E k \in 1..Len(getVersions(testFuncs[j])) :
                                  getVersions(testFuncs[j])[k] = version})

PlanEntry(i, version) == tfuncs[version][EntryIndex(i, version)]

InWorkingSet(i, version) ==
    \E k \in 1..Len(getVersions(testFuncs[i])) : getVersions(testFuncs[i])[k] = version

RECURSIVE Concat(_)
Concat(ss) == IF ss = <<>> THEN <<>> ELSE Head(ss) \o Concat(Tail(ss))

\* a Test with its Path left out
NoPath(t) == [kind |-> t.kind, APIVersions |-> t.APIVersions]

\* the items of a function or of a plan entry, Paths left out
NoPathItems(items) ==
    [n \in 1..Len(items) |->
        IF items[n].kind = "Test" THEN NoPath(items[n])
        ELSE [kind |-> "Subtests",
              subs |-> [m \in 1..Len(items[n].subs) |->
                           [Name |-> items[n].subs[m].Name,
                            Tests |-> [q \in 1..Len(items[n].subs[m].Tests) |->
                                          NoPath(items[n].subs[m].Tests[q])]]]]]

\* every Test of a plan entry, direct or in a group, in order
FlatTests(items) ==
    Concat([n \in 1..Len(items) |->
               IF items[n].kind = "Test" THEN <<items[n]>>
               ELSE Concat([m \in 1..Len(items[n].subs) |-> items[n].subs[m].Tests])])

(* C1: the stated rule, applied to the Tests of a function *)

C1_Rule(t, fn, version) ==
    \/ contains(t.APIVersions, version)
    \/ (Len(t.APIVersions.elems) = 0 /\ contains(fn.APIVersions, version))

C1_Select(tests, fn, version) ==
    SelectSeq([q \in 1..Len(tests) |-> NoPath(tests[q])],
              LAMBDA t : C1_Rule(t, fn, version))

C1_RetainedSubs(subs, fn, version) ==
    LET kept == SelectSeq(subs, LAMBDA s : SubtestKept(s, fn.APIVersions, version))
    IN  [m \in 1..Len(kept) |->
            [Name |-> kept[m].Name, Tests |-> C1_Select(kept[m].Tests, fn, version)]]

C1_Expected(fn, version) ==
    Concat([n \in 1..Len(fn.Tests) |->
               IF fn.Tests[n].kind = "Test"
               THEN C1_Select(<<fn.Tests[n]>>, fn, version)
               ELSE << [kind |-> "Subtests",
                        subs |-> C1_RetainedSubs(fn.Tests[n].subs, fn, version)] >>])

\* C1: for every function, every version of its working set and every Test of the
\* function (direct, or in a group retained for the version), the Test is in the
\* version's plan exactly when the version is in the Test's APIVersions, or the Test's
\* APIVersions has no entries (nil or empty) and the version is in the function's.
C1_TestPlannedIffRule ==
    planPc = "planned" =>
        \A i \in 1..Len(testFuncs) : \A version \in Versions :
            InWorkingSet(i, version) =>
                NoPathItems(PlanEntry(i, version).Tests) = C1_Expected(testFuncs[i], version)

(* C2 *)

HasRetainedTest(tfunc) == FlatTests(tfunc.Tests) /= <<>>

\* C2: a function has an entry in a version's plan only if at least one of its Tests,
\* direct or in a group, is retained for the version: the plan holds no function
\* without a Test.
C2_NoEmptyEntry ==
    planPc = "planned" =>
        \A version \in DOMAIN tfuncs : \A k \in 1..Len(tfuncs[version]) :
            HasRetainedTest(tfuncs[version][k])

(* C3 *)

\* the Tests of a function that the plan of a version retains, as they were given
KeptInputTests(fn, version) ==
    Concat([n \in 1..Len(fn.Tests) |->
        IF fn.Tests[n].kind = "Test"
        THEN SelectSeq(<<fn.Tests[n]>>,
                       LAMBDA t : filterTestKeeps(t, fn.APIVersions, version))
        ELSE Concat([m \in 1..Len(fn.Tests[n].subs) |->
                 IF SubtestKept(fn.Tests[n].subs[m], fn.APIVersions, version)
                 THEN SelectSeq(fn.Tests[n].subs[m].Tests,
                                LAMBDA t : filterTestKeeps(t, fn.APIVersions, version))
                 ELSE <<>>])])

\* C3: the Path of every retained Test holds no occurrence of the placeholder and is
\* the input Path with every occurrence replaced by the version.
C3_PathFullyResolved ==
    planPc = "planned" =>
        \A i \in 1..Len(testFuncs) : \A version \in Versions :
            InWorkingSet(i, version) =>
                LET got == FlatTests(PlanEntry(i, version).Tests)
                    given == KeptInputTests(testFuncs[i], version)
                IN  /\ Len(got) = Len(given)
                    /\ \A q \in 1..Len(got) :
                          /\ Occurrences(got[q].Path, Placeholder) = {}
                          /\ got[q].Path = ReplaceEvery(given[q].Path, Placeholder, version)

(* C4 *)

\* the APIVersions of every Test nested in the function, direct or in a group, in order
AllTestVersions(items) ==
    Concat([n \in 1..Len(items) |->
               IF items[n].kind = "Test" THEN items[n].APIVersions.elems
               ELSE Concat([m \in 1..Len(items[n].subs) |->
                        Concat([q \in 1..Len(items[n].subs[m].Tests) |->
                                   items[n].subs[m].Tests[q].APIVersions.elems])])])

C4_Expected(fn) == Dedupe(fn.APIVersions.elems \o AllTestVersions(fn.Tests), {})

SeqRange(s) == {s[k] : k \in 1..Len(s)}

\* C4: the working set of a function is the first-occurrence-ordered union of its
\* APIVersions and the APIVersions of every Test nested in it, direct or in a group;
\* the versions planned are those of the working sets.
C4_WorkingSetIsUnion ==
    planPc = "planned" =>
        /\ \A i \in 1..Len(testFuncs) : getVersions(testFuncs[i]) = C4_Expected(testFuncs[i])
        /\ DOMAIN tfuncs = UNION {SeqRange(C4_Expected(testFuncs[i])) : i \in 1..Len(testFuncs)}

----------------------------------------------------------------------------
(* Spec: a run of Generate over the versions of the plan *)

MaxPlanned == 1         \* test functions planned per version

\* where a test function's RouterFunc.PackagePath stands: equal to the output
\* package, the path of a package of g.Program, or neither
RouterKinds == {"same", "loaded", "unloaded"}

\* the plans filterTestFuncs can give Generate: every version it holds has at least
\* one test function
GenPlanSet ==
    UNION {[vs -> {fs \in SeqsUpTo(RouterKinds, MaxPlanned) : fs /= <<>>}] :
              vs \in SUBSET Versions}

\* (a template holds the "Atgen Test block" marker: the input contract)
TemplateSet ==
    [parses : BOOLEAN,         \* parser.ParseFile accepts g.Template
     hasTestFunc : BOOLEAN,    \* a comment holds "Atgen TestFunc block"
     hasRouterCall : BOOLEAN,  \* the function skeleton calls AtgenRouterFunc
     pkgOK : BOOLEAN]          \* PackageName resolves the output directory

Init ==
    /\ genPlan \in GenPlanSet
    /\ tmpl \in TemplateSet
    /\ visited = {}
    /\ cur = <<>>
    /\ tmp = [v \in DOMAIN genPlan |-> "none"]
    /\ out = [v \in DOMAIN genPlan |-> "untouched"]
    /\ pc = "range"
    /\ PlanIdle /\ AsmIdle /\ RegIdle

\* the deferred calls of every iteration so far: tf.Close(), os.Remove(tf.Name()),
\* f.Close()
Deferred(t) == [v \in DOMAIN t |-> IF t[v] = "none" THEN "none" ELSE "removed"]

\* how generateTestFuncs ends for a version's test functions, before it formats:
\* "error" (returns err), "panic" or "ok"
GenerateOutcome(t, funcs) ==
    IF ~t.parses THEN "error"
    ELSE IF ~t.pkgOK THEN "error"
    ELSE IF ~t.hasTestFunc THEN "panic"
    ELSE IF t.hasRouterCall /\ \E k \in 1..Len(funcs) : funcs[k] = "unloaded" THEN "panic"
    ELSE "ok"

\* for v, t := range tfuncs: the next key, in the order the map gives
RangeNext ==
    /\ pc = "range"
    /\ \E v \in DOMAIN genPlan \ visited :
          /\ cur' = v
          /\ visited' = visited \cup {v}
    /\ pc' = "tempfile"
    /\ UNCHANGED <<genPlan, tmpl, tmp, out, planVars, asmVars, regVars>>

\* the loop is over: return nil
RangeEnd ==
    /\ pc = "range"
    /\ DOMAIN genPlan \ visited = {}
    /\ tmp' = Deferred(tmp)
    /\ pc' = "done"
    /\ UNCHANGED <<genPlan, tmpl, visited, cur, out, planVars, asmVars, regVars>>

\* ioutil.TempFile(g.OutputDir, filename)
TempFile ==
    /\ pc = "tempfile"
    /\ \/ /\ tmp' = [tmp EXCEPT ![cur] = "empty"]
          /\ pc' = "generate"
       \/ /\ tmp' = Deferred(tmp)
          /\ pc' = "error"
    /\ UNCHANGED <<genPlan, tmpl, visited, cur, out, planVars, asmVars, regVars>>

\* as if generateTestFuncs were given the output file as its writer
GenerateFailureOutput_DirectWrite(o, v) == [o EXCEPT ![v] = "partial"]

\* the files at the output paths when generateTestFuncs fails for version v: its
\* writer is the temporary file tf, the output path is not opened yet
GenerateFailureOutput(o, v) == o

\* err = g.generateTestFuncs(v, t, tf)
GenerateTestFuncs ==
    /\ pc = "generate"
    /\ LET r == GenerateOutcome(tmpl, genPlan[cur])
       IN  \/ /\ r = "ok"          \* format.Node wrote the source to tf
              /\ tmp' = [tmp EXCEPT ![cur] = "written"]
              /\ pc' = "create"
              /\ out' = out
           \/ /\ r = "ok"          \* format.Node failed while writing
              /\ tmp' = Deferred(tmp)
              /\ pc' = "error"
              /\ out' = GenerateFailureOutput(out, cur)
           \/ /\ r /= "ok"
              /\ tmp' = Deferred(tmp)
              /\ pc' = r
              /\ out' = GenerateFailureOutput(out, cur)
    /\ UNCHANGED <<genPlan, tmpl, visited, cur, planVars, asmVars, regVars>>

\* f, err := os.Create(out)
OsCreate ==
    /\ pc = "create"
    /\ \/ /\ out' = [out EXCEPT ![cur] = "empty"]
          /\ tmp' = tmp
          /\ pc' = "copy"
       \/ /\ out' = out
          /\ tmp' = Deferred(tmp)
          /\ pc' = "error"
    /\ UNCHANGED <<genPlan, tmpl, visited, cur, planVars, asmVars, regVars>>

\* io.Copy(f, tf) has written a part of the source
CopyPart ==
    /\ pc = "copy"
    /\ out[cur] = "empty"
    /\ out' = [out EXCEPT ![cur] = "partial"]
    /\ UNCHANGED <<genPlan, tmpl, visited, cur, tmp, pc, planVars, asmVars, regVars>>

\* io.Copy(f, tf) returns: all is written, or a write failed; its results are dropped
CopyEnd ==
    /\ pc = "copy"
    /\ \/ out' = [out EXCEPT ![cur] = "complete"]
       \/ out' = out
    /\ pc' = "range"
    /\ UNCHANGED <<genPlan, tmpl, visited, cur, tmp, planVars, asmVars, regVars>>

Next == RangeNext \/ RangeEnd \/ TempFile \/ GenerateTestFuncs \/ OsCreate \/ CopyPart \/ CopyEnd

Spec == Init /\ [][Next]_vars

Ended == pc \in {"done", "error", "panic"}

\* the versions whose iteration ended before the current one
Before == visited \ {cur}

\* C5, as stated: when a run ends with an error, no output file of the run exists or
\* was modified, the files of the versions before the failing one included.
C5_NoOutputAfterError ==
    pc = "error" => \A v \in DOMAIN out : out[v] = "untouched"

\* C5, amended: when a run ends with an error, the output files of the failing
\* version and of the versions not reached are untouched, and those of the versions
\* before the failing one were created or overwritten and stay so.
C5_OnlyEarlierVersionsWritten ==
    pc = "error" => \A v \in DOMAIN out : (out[v] = "untouched") <=> (v \notin Before)

C5_Witness ==
    /\ pc = "error"
    /\ \E v \in Before : out[v] = "complete"
    /\ out[cur] = "untouched"

\* C6: at every point of a run each output path is untouched or holds the complete
\* source of its version, and a successful run leaves one output file per version
\* (no temporary file beside it).
C6_OutputNeverPartial ==
    /\ \A v \in DOMAIN out : out[v] \in {"untouched", "complete"}
    /\ pc = "done" => \A v \in DOMAIN out : out[v] = "complete" /\ tmp[v] = "removed"

\* C9: with no FunctionSkeleton marker in the template, or a planned router package
\* that is neither the output package nor a loaded one, Generate ends by returning
\* an error: it neither crashes nor completes.
C9_EndsWithError ==
    (/\ Ended
     /\ DOMAIN genPlan /= {}
     /\ \/ ~tmpl.hasTestFunc
        \/ \E v \in DOMAIN genPlan : \E k \in 1..Len(genPlan[v]) : genPlan[v][k] = "unloaded")
    => pc = "error"

----------------------------------------------------------------------------
(* SpecAsm: the tree work of generateTestFuncs for one version: imports, the   *)
(* generated function nodes, and their assembly into the declarations           *)

MaxAsmFuncs == 2        \* test functions of the version
MaxAsmTests == 1        \* items of a test function
MaxDecls == 3           \* declarations of the template after its import declaration

ContentTypes == {"JSON", "FORM", "RAW"}

AsmTestSet == [kind : {"Test"}, Type : ContentTypes]

AsmSubtestsSet ==
    [kind : {"Subtests"},
     subs : {<<s>> : s \in [Name : {"s"}, Tests : SeqsUpTo(AsmTestSet, 1)]}]

OutputPath == "example.com/out"

RouterPath == "example.com/router"

\* the planned test functions of a version: at most n, of at most m items each
AsmFuncsSet(n, m) ==
    UNION {[1..k -> [PackagePath : {OutputPath, RouterPath},
                     Tests : SeqsUpTo(AsmTestSet \cup AsmSubtestsSet, m)]] :
              k \in 1..n}

\* the function skeleton (the declaration the marker comment is attached to)
testFuncNode == [kind |-> "FuncDecl", name |-> "TestTemplate"]

TemplateDeclNodes ==
    { testFuncNode,
      [kind |-> "FuncDecl", name |-> "helperA"],
      [kind |-> "FuncDecl", name |-> "helperB"],
      [kind |-> "GenDecl", name |-> "atgenRegister"] }

ImportDecl == [kind |-> "GenDecl", name |-> "import"]

\* templates: the import declaration, then distinct declarations, the skeleton among them
TemplateDeclsSet ==
    { <<ImportDecl>> \o d : d \in
        { d \in SeqsUpTo(TemplateDeclNodes, MaxDecls) :
            /\ \E n \in 1..Len(d) : d[n] = testFuncNode
            /\ \A n, m \in 1..Len(d) : d[n] = d[m] => n = m } }

TemplateImportsSet ==
    { {"testing", "encoding/json"},
      {"testing", "encoding/json", "fmt"},
      {"testing", "encoding/json", "bytes", "text/template"} }

AsmInit ==
    /\ asmTemplate \in [decls : TemplateDeclsSet, imports : TemplateImportsSet]
    /\ asmFuncs \in AsmFuncsSet(MaxAsmFuncs, MaxAsmTests)
    /\ imports = asmTemplate.imports
    /\ decls = asmTemplate.decls
    /\ tfnodes = <<>>
    /\ asmIdx = 0
    /\ asmPc = "imports"
    /\ PlanIdle /\ GenIdle /\ RegIdle

\* astutil.AddImport: the import list holds a path once
AddImport(imp, path) == imp \cup {path}

\* rewriteFileAst: the router package of every test function outside the output package
RECURSIVE RouterImports(_, _)
RouterImports(imp, funcs) ==
    IF funcs = <<>> THEN imp
    ELSE RouterImports(IF Head(funcs).PackagePath = OutputPath THEN imp
                       ELSE AddImport(imp, Head(funcs).PackagePath),
                       Tail(funcs))

\* the switch of addAdditionalImports: the cases JSON and RAW are empty
addAdditionalImports(typ, imp) ==
    CASE typ = "JSON" -> imp
      [] typ = "RAW" -> imp
      [] typ = "FORM" ->
            AddImport(AddImport(AddImport(AddImport(imp, "fmt"), "net/url"), "bytes"),
                      "text/template")
      [] OTHER -> imp

\* the packages the expression generateRequestBody synthesizes refers to
BodyPackages(typ) ==
    CASE typ = "JSON" -> {"encoding/json"}
      [] typ = "FORM" -> {"net/url", "fmt"}
      [] typ = "RAW" -> {"text/template", "bytes"}
      [] OTHER -> {}

\* the content types of the Tests of a test function, direct and in groups, in order
AsmTypes(items) ==
    Concat([n \in 1..Len(items) |->
               IF items[n].kind = "Test" THEN <<items[n].Type>>
               ELSE Concat([m \in 1..Len(items[n].subs) |->
                        [q \in 1..Len(items[n].subs[m].Tests) |->
                            items[n].subs[m].Tests[q].Type]])])

RECURSIVE AddImportsOf(_, _)
AddImportsOf(imp, types) ==
    IF types = <<>> THEN imp
    ELSE AddImportsOf(addAdditionalImports(Head(types), imp), Tail(types))

\* line 113: rewriteFileAst(fset, f, testFuncs, outputPath)
RewriteFileAst ==
    /\ asmPc = "imports"
    /\ imports' = RouterImports(imports, asmFuncs)
    /\ asmIdx' = 1
    /\ asmPc' = "funcs"
    /\ UNCHANGED <<asmTemplate, asmFuncs, decls, tfnodes, planVars, genVars, regVars>>

\* one iteration of the loop over testFuncs: the clone of the skeleton named after
\* the function, the imports of its Tests, its body
GenerateTestFunc ==
    /\ asmPc = "funcs"
    /\ asmIdx <= Len(asmFuncs)
    /\ imports' = AddImportsOf(imports, AsmTypes(asmFuncs[asmIdx].Tests))
    /\ tfnodes' = Append(tfnodes, [kind |-> "FuncDecl", name |-> FuncNames[asmIdx]])
    /\ asmIdx' = asmIdx + 1
    /\ UNCHANGED <<asmTemplate, asmFuncs, decls, asmPc, planVars, genVars, regVars>>

\* the last astutil.Apply over f: at every FuncDecl of Decls the generated nodes are
\* inserted before it, and the skeleton is deleted; inserted nodes are not visited
RECURSIVE ApplyDecls(_, _)
ApplyDecls(ds, nodes) ==
    IF ds = <<>> THEN <<>>
    ELSE (IF Head(ds).kind = "FuncDecl" THEN nodes ELSE <<>>)
         \o (IF Head(ds) = testFuncNode THEN <<>> ELSE <<Head(ds)>>)
         \o ApplyDecls(Tail(ds), nodes)

Assemble ==
    /\ asmPc = "funcs"
    /\ asmIdx > Len(asmFuncs)
    /\ decls' = ApplyDecls(decls, tfnodes)
    /\ asmPc' = "done"
    /\ UNCHANGED <<asmTemplate, asmFuncs, imports, tfnodes, asmIdx, planVars, genVars, regVars>>

AsmNext == RewriteFileAst \/ GenerateTestFunc \/ Assemble

SpecAsm == AsmInit /\ [][AsmNext]_vars

(* C7 *)

PlannedTypes == UNION {SeqRange(AsmTypes(asmFuncs[i].Tests)) : i \in 1..Len(asmFuncs)}

FormHelperImports == {"fmt", "net/url", "bytes", "text/template"}

\* the helper packages of a content type: those addAdditionalImports lists for FORM,
\* those the RAW body expression needs for RAW
C7_HelperSet(typ) == IF typ = "FORM" THEN FormHelperImports ELSE BodyPackages("RAW")

\* C7: after generation the import list holds the helper packages of FORM when a
\* planned Test is FORM and those of RAW when a planned Test is RAW; a run whose
\* planned Tests are all JSON adds none of them.
C7_HelperImportsAdded ==
    asmPc = "done" =>
        /\ \A typ \in {"FORM", "RAW"} : typ \in PlannedTypes => C7_HelperSet(typ) \subseteq imports
        /\ PlannedTypes \subseteq {"JSON"} =>
              imports \cap FormHelperImports = asmTemplate.imports \cap FormHelperImports

(* C10 *)

FirstFuncDecl(ds) == Min({n \in 1..Len(ds) : ds[n].kind = "FuncDecl"})

\* C10: the assembled declarations hold each generated function once, in plan order,
\* right before the place of the first function declaration; the skeleton is removed
\* and every other declaration is kept once, in its order.
C10_AssembledOnce ==
    asmPc = "done" =>
        LET given == asmTemplate.decls
            n == FirstFuncDecl(given)
        IN  decls = SubSeq(given, 1, n - 1) \o tfnodes
                      \o SelectSeq(SubSeq(given, n, Len(given)),
                                   LAMBDA d : d /= testFuncNode)

----------------------------------------------------------------------------
(* SpecReg: the second pass of rewriteTestNode over a string literal           *)
(*                                                                             *)
(* A literal's value is a sequence of characters; the words atgenRegister and  *)
(* atgenVars and the type assertions the code writes are single symbols, which *)
(* hold characters no path holds.                                              *)

MaxSegments == 4        \* segments of a register path

Q == "\""

Digits == {"0", "1", "2", "3", "4", "5", "6", "7", "8", "9"}

MapAssert == ".(map[string]interface{})"

SeqAssert == ".([]interface{})"

StringAssert == ".(string)"

\* the paths of the grammar ident ( '.' ident | '[' digit+ ']' )*
SegmentSet ==
    [kind : {"ident"}, text : {<<"a">>, <<"i", "d">>}]
        \cup [kind : {"index"}, text : {<<"0">>, <<"1", "2">>}]

RegPathSet ==
    {p \in SeqsUpTo(SegmentSet, MaxSegments) : p /= <<>> /\ p[1].kind = "ident"}

\* the text of a path
PathText(p) ==
    Concat([k \in 1..Len(p) |->
               IF p[k].kind = "index" THEN <<"[">> \o p[k].text \o <<"]">>
               ELSE (IF k > 1 THEN <<".">> ELSE <<>>) \o p[k].text])

\* the literal "$atgenRegister[path]", quotes included
RegisterLiteral(p) == <<Q, "$", "atgenRegister", "[">> \o PathText(p) \o <<"]", Q>>

HasPrefix(s, p) == HasPrefixAt(s, p, 1)

HasSuffix(s, p) == Len(p) <= Len(s) /\ HasPrefixAt(s, p, Len(s) - Len(p) + 1)

TrimPrefix(s, p) == IF HasPrefix(s, p) THEN SubSeq(s, Len(p) + 1, Len(s)) ELSE s

TrimSuffix(s, p) == IF HasSuffix(s, p) THEN SubSeq(s, 1, Len(s) - Len(p)) ELSE s

\* strings.Split(s, sep) for a one-character sep
RECURSIVE Split(_, _)
Split(s, sep) ==
    IF \A i \in 1..Len(s) : s[i] /= sep THEN <<s>>
    ELSE LET i == Min({k \in 1..Len(s) : s[k] = sep})
         IN  <<SubSeq(s, 1, i - 1)>> \o Split(SubSeq(s, i + 1, Len(s)), sep)

\* positions j after i where \[(\d)\] matches: "[", one digit, "]"
BracketAt(t, i) ==
    {j \in (i + 1)..(Len(t) - 2) : t[j] = "[" /\ t[j + 1] \in Digits /\ t[j + 2] = "]"}

\* rep.ReplaceAllString(t, `["$1"].([]interface{})[$2]`) for rep = (.+)\[(\d)\]:
\* the leftmost match, its (.+) as long as can be, then the rest of t
RECURSIVE RegexReplace(_)
RegexReplace(t) ==
    IF \A i \in 1..Len(t) : BracketAt(t, i) = {} THEN t
    ELSE LET i == Min({k \in 1..Len(t) : BracketAt(t, k) /= {}})
             j == Max(BracketAt(t, i))
         IN  SubSeq(t, 1, i - 1)
               \o <<"[", Q>> \o SubSeq(t, i, j - 1) \o <<Q, "]", SeqAssert, "[", t[j + 1], "]">>
               \o RegexReplace(SubSeq(t, j + 3, Len(t)))

\* the text the loop of replaceRegister adds for t[i]
SegmentLookup(seg) ==
    IF \E k \in 1..Len(seg) : seg[k] = "["
    THEN RegexReplace(seg)
    ELSE <<"[", Q>> \o seg \o <<Q, "]">>

replaceRegister(str) ==
    LET s == TrimSuffix(TrimPrefix(str, <<Q, "$", "atgenRegister", "[">>), <<"]", Q>>)
        t == Split(s, ".")
    IN  <<"atgenRegister">>
          \o Concat([i \in 1..Len(t) |->
                        (IF i > 1 THEN <<MapAssert>> ELSE <<>>) \o SegmentLookup(t[i])])
          \o <<StringAssert>>

\* the literal "${name:type}" becomes atgenVars["name"].(type)
replaceVar(str) ==
    LET s == TrimSuffix(TrimPrefix(str, <<Q, "$", "{">>), <<"}", Q>>)
        t == Split(s, ":")
    IN  <<"atgenVars", "[", Q>> \o t[1] \o <<Q, "]", ".", "(">> \o t[2] \o <<")">>

VarLiteral == <<Q, "$", "{", "a", ":", "i", "n", "t", "}", Q>>

PlainLiteral == <<Q, "a", Q>>

RegInit ==
    /\ \/ /\ regPath \in RegPathSet
          /\ literal = RegisterLiteral(regPath)
       \/ /\ regPath = <<>>
          /\ literal \in {VarLiteral, PlainLiteral}
    /\ regPc = "start"
    /\ PlanIdle /\ GenIdle /\ AsmIdle

\* rewriteTestNode, lines 418-431, at a BasicLit
RewriteLiteral ==
    /\ regPc = "start"
    /\ literal' = IF HasPrefix(literal, <<Q, "$", "{">>) THEN replaceVar(literal)
                  ELSE IF HasPrefix(literal, <<Q, "$", "atgenRegister", "[">>)
                       THEN replaceRegister(literal)
                       ELSE literal
    /\ regPc' = "done"
    /\ UNCHANGED <<regPath, planVars, genVars, asmVars>>

RegNext == RewriteLiteral

SpecReg == RegInit /\ [][RegNext]_vars

\* one lookup per segment: a string-keyed map lookup for an identifier, a sequence
\* index with the whole index value for a bracketed segment, each on the value the
\* lookup before it gave, asserted to the container the lookup needs
C8_Chain(p) ==
    <<"atgenRegister">>
      \o Concat([k \in 1..Len(p) |->
              IF p[k].kind = "ident"
              THEN (IF k > 1 THEN <<MapAssert>> ELSE <<>>) \o <<"[", Q>> \o p[k].text \o <<Q, "]">>
              ELSE <<SeqAssert, "[">> \o p[k].text \o <<"]">>])
      \o <<StringAssert>>

\* C8: for every register path of the grammar the interpolation is rewritten to the
\* chain with one lookup per segment, left to right, ended by the string assertion.
C8_RegisterChain ==
    (regPc = "done" /\ regPath /= <<>>) => literal = C8_Chain(regPath)

====
